---- MODULE Spec2Model ----
(***************************************************************************)
(* A model of src/data/v2/stream.rs: the Symbol order, is_normalized and   *)
(* normalize, the Normalized wrapper and MarketData::set_bars, and the     *)
(* control operations of Subscription.                                    *)
(*                                                                         *)
(* Text (Str, String, &str) is a sequence of one-character strings.        *)
(* Option<T> is a sequence of length at most one: None is <<>> and         *)
(* Some(x) is <<x>>.                                                       *)
(***************************************************************************)
EXTENDS Integers, Sequences, FiniteSets, TLC

\* Longest symbol list handed to the conversions and to normalize.
MaxLen == 3

\* Most control calls made on one Subscription.
MaxCalls == 2

None == <<>>

Some(x) == <<x>>

(***************************************************************************)
(* Symbol and its derived order                                            *)
(***************************************************************************)

\* The texts that symbols are built from; "*" is the text of the wildcard.
Texts == { <<"A">>, <<"A", "B">>, <<"B">>, <<"*">> }

\* Byte value of a character, which the comparison of str goes by.
Byte(c) == CASE c = "*" -> 42 [] c = "A" -> 65 [] c = "B" -> 66

\* Symbol::All
All == [variant |-> "All", text |-> <<>>]

\* Symbol::Symbol(text)
Symbol(text) == [variant |-> "Symbol", text |-> text]

\* Every Symbol value over Texts, Symbol::Symbol("*") included: the variant
\* is public, so a caller can build it without going through From.
SymbolValues == { Symbol(t) : t \in Texts } \cup { All }

\* impl From<&'static str> for Symbol
symbol_from_str(symbol) == IF symbol = <<"*">> THEN All ELSE Symbol(symbol)

\* impl From<String> for Symbol
symbol_from_string(symbol) == IF symbol = <<"*">> THEN All ELSE Symbol(symbol)

\* Ord for str: lexicographic on bytes.
RECURSIVE str_cmp(_, _)
str_cmp(a, b) ==
  IF a = <<>> /\ b = <<>> THEN "Equal"
  ELSE IF a = <<>> THEN "Less"
  ELSE IF b = <<>> THEN "Greater"
  ELSE IF Byte(Head(a)) < Byte(Head(b)) THEN "Less"
  ELSE IF Byte(Head(a)) > Byte(Head(b)) THEN "Greater"
  ELSE str_cmp(Tail(a), Tail(b))

\* Position of a variant in the declaration of the enum.
Discriminant(s) == IF s.variant = "Symbol" THEN 0 ELSE 1

\* #[derive(PartialOrd)] on Symbol: by variant first, then by the payload.
partial_cmp(x, y) ==
  IF Discriminant(x) < Discriminant(y) THEN Some("Less")
  ELSE IF Discriminant(x) > Discriminant(y) THEN Some("Greater")
  ELSE IF x.variant = "Symbol" THEN Some(str_cmp(x.text, y.text))
  ELSE Some("Equal")

\* slice::contains, by the derived PartialEq.
contains(symbols, x) == \E i \in 1..Len(symbols) : symbols[i] = x

(***************************************************************************)
(* is_normalized and normalize                                             *)
(***************************************************************************)

\* The closure `check` driven by Iterator::all: last is the element seen
\* before, rest what the iterator still holds.
RECURSIVE all_check(_, _)
all_check(last, rest) ==
  IF rest = <<>> THEN TRUE
  ELSE LET curr == Head(rest)
           ord == partial_cmp(last, curr)
       IN IF ord = Some("Greater") \/ ord = None
          THEN FALSE
          ELSE all_check(curr, Tail(rest))

\* is_normalized without the check for the wildcard among other elements.
is_normalized_wildcard_unchecked(symbols) ==
  IF symbols = <<>> THEN TRUE
  ELSE all_check(Head(symbols), Tail(symbols))

is_normalized(symbols) ==
  IF Len(symbols) > 1 /\ contains(symbols, All) THEN FALSE
  ELSE IF symbols = <<>> THEN TRUE
  ELSE all_check(Head(symbols), Tail(symbols))

\* Option::unwrap
unwrap(opt) == Head(opt)

\* One insertion of the stable sort: x goes behind the elements it is not
\* less than.
RECURSIVE sort_insert(_, _)
sort_insert(sorted, x) ==
  IF sorted = <<>> THEN <<x>>
  ELSE IF unwrap(partial_cmp(x, Head(sorted))) = "Less" THEN <<x>> \o sorted
  ELSE <<Head(sorted)>> \o sort_insert(Tail(sorted), x)

\* symbols.sort_by(|x, y| x.partial_cmp(y).unwrap()), a stable sort.
RECURSIVE sort_by(_)
sort_by(symbols) ==
  IF symbols = <<>> THEN <<>>
  ELSE sort_insert(sort_by(SubSeq(symbols, 1, Len(symbols) - 1)),
                   symbols[Len(symbols)])

\* Vec::dedup: of every run of equal consecutive elements the first stays.
RECURSIVE dedup(_)
dedup(symbols) ==
  IF Len(symbols) < 2 THEN symbols
  ELSE IF symbols[1] = symbols[2]
       THEN dedup(<<symbols[1]>> \o SubSeq(symbols, 3, Len(symbols)))
       ELSE <<symbols[1]>> \o dedup(Tail(symbols))

\* normalize_now without the wildcard branch.
normalize_now_no_wildcard(symbols) == dedup(sort_by(symbols))

normalize_now(symbols) ==
  IF contains(symbols, All) THEN <<All>>
  ELSE dedup(sort_by(symbols))

\* The sort of sort_insert meets a comparison that is None: unwrap panics.
RECURSIVE sort_insert_panics(_, _)
sort_insert_panics(sorted, x) ==
  IF sorted = <<>> THEN FALSE
  ELSE IF partial_cmp(x, Head(sorted)) = None THEN TRUE
  ELSE IF unwrap(partial_cmp(x, Head(sorted))) = "Less" THEN FALSE
  ELSE sort_insert_panics(Tail(sorted), x)

\* sort_by panics on one of the comparisons it makes.
RECURSIVE sort_by_panics(_)
sort_by_panics(symbols) ==
  IF symbols = <<>> THEN FALSE
  ELSE LET front == SubSeq(symbols, 1, Len(symbols) - 1)
       IN \/ sort_by_panics(front)
          \/ sort_insert_panics(sort_by(front), symbols[Len(symbols)])

\* Option: the panic that normalize(symbols) ends in, the unwrap in the
\* comparator or the debug_assert on the result.
normalize_failure(symbols) ==
  IF is_normalized(symbols) THEN None
  ELSE IF ~contains(symbols, All) /\ sort_by_panics(symbols) THEN Some("unwrap")
  ELSE IF ~is_normalized(normalize_now(symbols)) THEN Some("debug_assert")
  ELSE None

\* normalize without the is_normalized shortcut.
normalize_always(symbols) == normalize_now(symbols)

normalize(symbols) ==
  IF ~is_normalized(symbols) THEN normalize_now(symbols) ELSE symbols

(***************************************************************************)
(* Normalized and MarketData                                               *)
(***************************************************************************)

\* Iterator::map over a vector.
RECURSIVE map_symbol_from_string(_)
map_symbol_from_string(strings) ==
  IF strings = <<>> THEN <<>>
  ELSE <<symbol_from_string(Head(strings))>> \o map_symbol_from_string(Tail(strings))

RECURSIVE map_symbol_from_str(_)
map_symbol_from_str(strs) ==
  IF strs = <<>> THEN <<>>
  ELSE <<symbol_from_str(Head(strs))>> \o map_symbol_from_str(Tail(strs))

\* impl From<Symbols> for Normalized
Normalized_from_symbols(symbols) == normalize(symbols)

\* impl From<Vec<String>> for Normalized
Normalized_from_strings(strings) == normalize(map_symbol_from_string(strings))

\* impl From<[&'static str; N]> for Normalized
Normalized_from_strs(strs) == normalize(map_symbol_from_str(strs))

\* #[derive(Default)] on Normalized: the empty list.
Normalized_default == <<>>

\* #[derive(Default)] on MarketData
MarketData_default == [bars |-> Normalized_default]

\* Sequences over S of length at most n.
SeqUpTo(S, n) == UNION { [1..k -> S] : k \in 0..n }

SymbolLists == SeqUpTo(SymbolValues, MaxLen)

TextLists == SeqUpTo(Texts, MaxLen)

\* A symbol list normalized at construction: what a Normalized can hold.
NormalizedValues == { normalize(symbols) : symbols \in SymbolLists }

(***************************************************************************)
(* Text formatting                                                         *)
(***************************************************************************)

Digit(d) == <<"0", "1", "2", "3", "4", "5", "6", "7", "8", "9">>[d + 1]

\* Display for u64: the decimal digits, most significant first.
RECURSIVE u64_to_string(_)
u64_to_string(n) ==
  IF n < 10 THEN <<Digit(n)>>
  ELSE u64_to_string(n \div 10) \o <<Digit(n % 10)>>

\* "failed to authenticate with server: "
AuthFailedPrefix ==
  <<"f", "a", "i", "l", "e", "d", " ", "t", "o", " ", "a", "u",
    "t", "h", "e", "n", "t", "i", "c", "a", "t", "e", " ", "w",
    "i", "t", "h", " ", "s", "e", "r", "v", "e", "r", ":", " ">>

\* "failed to authenticate with server"
AuthFailedText ==
  <<"f", "a", "i", "l", "e", "d", " ", "t", "o", " ", "a", "u",
    "t", "h", "e", "n", "t", "i", "c", "a", "t", "e", " ", "w",
    "i", "t", "h", " ", "s", "e", "r", "v", "e", "r">>

\* "stream was closed before authorization message was received"
StreamClosedText ==
  <<"s", "t", "r", "e", "a", "m", " ", "w", "a", "s", " ", "c",
    "l", "o", "s", "e", "d", " ", "b", "e", "f", "o", "r", "e",
    " ", "a", "u", "t", "h", "o", "r", "i", "z", "a", "t", "i",
    "o", "n", " ", "m", "e", "s", "s", "a", "g", "e", " ", "w",
    "a", "s", " ", "r", "e", "c", "e", "i", "v", "e", "d">>

\* The format string without its second placeholder.
format_auth_error_no_code(message, code) == AuthFailedPrefix \o message

\* format!("failed to authenticate with server: {} ({})", message, code)
format_auth_error(message, code) ==
  AuthFailedPrefix \o message \o <<" ", "(">> \o u64_to_string(code) \o <<")">>

\* part occurs in text as a contiguous run of characters.
Embeds(text, part) ==
  \E i \in 0..(Len(text) - Len(part)) : SubSeq(text, i + 1, i + Len(part)) = part

(***************************************************************************)
(* Messages and results                                                    *)
(***************************************************************************)

\* "invalid credentials"
InvalidCredentials ==
  <<"i", "n", "v", "a", "l", "i", "d", " ", "c", "r", "e", "d",
    "e", "n", "t", "i", "a", "l", "s">>

\* The ApiError values the server answers with.
ApiCodes == { 0, 401 }

ApiMessages == { <<>>, InvalidCredentials }

\* The failures the sink reports (S::Error).
TransportErrors == { "ConnectionClosed", "Io" }

Keys == { "KEY-ID", "OTHER-KEY" }

Secrets == { "SECRET-KEY" }

\* ControlMessage::Success
ControlMessage_Success == [kind |-> "Success", code |-> 0, message |-> <<>>]

\* ControlMessage::Error(ApiError { code, message })
ControlMessage_Error(code, message) ==
  [kind |-> "Error", code |-> code, message |-> message]

\* Result<ControlMessage, ()>, the item that send resolves to: Ok(control)
Ok(control) == [ok |-> TRUE, control |-> control]

\* Err(()): the stream produced an erroneous message while the call waited.
Err_unit == [ok |-> FALSE, control |-> ControlMessage_Success]

\* Ok(Ok(()))
Ok_Ok == [outer |-> "Ok", inner |-> "Ok", description |-> <<>>, transport |-> ""]

\* Ok(Err(Error::Str(description)))
Ok_Err_Str(description) ==
  [outer |-> "Ok", inner |-> "Err", description |-> description, transport |-> ""]

\* Err(err), the sink's failure
Err(err) ==
  [outer |-> "Err", inner |-> "None", description |-> <<>>, transport |-> err]

\* Request::Authenticate { key_id, secret }
Request_Authenticate(key_id, secret) ==
  [variant |-> "Authenticate", key_id |-> key_id, secret |-> secret]

\* Request::Subscribe(&data)
Request_Subscribe(market_data) == [variant |-> "Subscribe", data |-> market_data]

\* Request::Unsubscribe(&data)
Request_Unsubscribe(market_data) == [variant |-> "Unsubscribe", data |-> market_data]

\* Serializer::serialize_str: the text between quotes (the texts here hold
\* no character that JSON escapes).
serialize_str(text) == <<"\"">> \o text \o <<"\"">>

\* symbol_to_str
symbol_to_str(symbol) == serialize_str(symbol)

\* symbol_all
symbol_all == serialize_str(<<"*">>)

\* Symbol::All serialized under the name of its variant.
serialize_symbol_by_name(symbol) ==
  IF symbol.variant = "Symbol" THEN symbol_to_str(symbol.text)
  ELSE serialize_str(<<"A", "l", "l">>)

\* #[derive(Serialize)] #[serde(untagged)] on Symbol
serialize_symbol(symbol) ==
  IF symbol.variant = "Symbol" THEN symbol_to_str(symbol.text) ELSE symbol_all

\* Serialize for Normalized and Symbols: the array of the elements.
RECURSIVE serialize_symbols(_)
serialize_symbols(list) ==
  IF list = <<>> THEN <<>>
  ELSE <<serialize_symbol(Head(list))>> \o serialize_symbols(Tail(list))

\* #[serde(rename = ...)] on the variants of Request
action_of(variant) ==
  CASE variant = "Authenticate" -> "auth"
    [] variant = "Subscribe" -> "subscribe"
    [] variant = "Unsubscribe" -> "unsubscribe"

\* serde_json::to_string of the request: the `action` tag, then the fields
\* of the variant.
to_json(request) ==
  IF request.variant = "Authenticate"
  THEN << <<"action", action_of(request.variant)>>, <<"key", request.key_id>>,
          <<"secret", request.secret>> >>
  ELSE << <<"action", action_of(request.variant)>>,
          <<"bars", serialize_symbols(request.data.bars)>> >>

\* wrap::Message::Text(json)
Message_Text(json) == [kind |-> "Text", json |-> json]

(***************************************************************************)
(* State                                                                   *)
(***************************************************************************)

VARIABLES
  symbols,        \* the list handed to is_normalized and normalize
  checked,        \* Option: what is_normalized(symbols) returned
  normalized,     \* Option: what normalize(symbols) returned
  renormalized,   \* Option: what normalize of that result returned
  failure,        \* Option: the panic that normalize(symbols) ended in
  encoded,        \* Option: the request encoded last and its JSON
  parsed,         \* the parsed inbound messages, in order of arrival
  classified,     \* the classifications of the messages classified so far
  judged,         \* per classified message: Option, what is_error said
  arg,            \* the argument of the last MarketData::set_bars call
  data,           \* a caller's MarketData
  pc,             \* where the running control call of the Subscription is
  op,             \* the control call made last
  calls,          \* control calls made so far
  request,        \* Option: the message the running call built
  sink,           \* the messages the sink accepted, in order
  channel,        \* "open" or "closed": the inbound stream
  control,        \* Option: the control response waiting for the call
  sendError,      \* Option: the failure the sink reported to the call
  response,       \* Option: the `response` that send resolved to
  result,         \* Option: what the call returned
  sent,           \* messages the running call handed to the sink
  consumed,       \* control responses the running call took
  subscriptions,  \* Subscription::subscriptions, the baseline
  previous,       \* the baseline when the running call started
  delta,          \* the argument of the last subscribe or unsubscribe
  authenticated,  \* an authenticate call has returned Ok(Ok(()))
  observed        \* Option: what subscriptions() returned last

symVars == <<symbols, checked, normalized, renormalized, failure, encoded>>

msgVars == <<parsed, classified, judged>>

dataVars == <<arg, data>>

sessionVars ==
  <<pc, op, calls, request, sink, channel, control, sendError, response,
    result, sent, consumed, subscriptions, previous, delta, authenticated,
    observed>>

vars == <<symVars, dataVars, msgVars, sessionVars>>

\* Subscription::new, and a MarketData::default() in the caller's hands.
InitRest ==
  /\ failure = None
  /\ encoded = None
  /\ arg = [from |-> "Default", items |-> <<>>]
  /\ data = MarketData_default
  /\ pc = "idle"
  /\ op = "none"
  /\ calls = 0
  /\ request = None
  /\ sink = <<>>
  /\ channel = "open"
  /\ control = None
  /\ sendError = None
  /\ response = None
  /\ result = None
  /\ sent = 0
  /\ consumed = 0
  /\ subscriptions = MarketData_default
  /\ previous = MarketData_default
  /\ delta = MarketData_default
  /\ authenticated = FALSE
  /\ observed = None

\* No inbound message has arrived.
InitNoMessages ==
  /\ parsed = <<>>
  /\ classified = <<>>
  /\ judged = <<>>

Init ==
  /\ symbols = <<>>
  /\ checked = None
  /\ normalized = None
  /\ renormalized = None
  /\ InitNoMessages
  /\ InitRest

\* The pure functions are applied to every list up to MaxLen.
InitSym ==
  /\ symbols \in SymbolLists
  /\ checked = None
  /\ normalized = None
  /\ renormalized = None
  /\ InitNoMessages
  /\ InitRest

(***************************************************************************)
(* The pure functions, applied                                             *)
(***************************************************************************)

IsNormalized ==
  /\ checked = None
  /\ checked' = Some(is_normalized(symbols))
  /\ UNCHANGED <<symbols, normalized, renormalized, failure, encoded,
                 dataVars, msgVars, sessionVars>>

\* normalize(symbols): it returns, unless it panics.
Normalize ==
  /\ normalized = None
  /\ failure = None
  /\ failure' = normalize_failure(symbols)
  /\ normalized' = IF normalize_failure(symbols) = None
                   THEN Some(normalize(symbols))
                   ELSE None
  /\ UNCHANGED <<symbols, checked, renormalized, encoded, dataVars, msgVars,
                 sessionVars>>

NormalizeAgain ==
  /\ normalized # None
  /\ renormalized = None
  /\ renormalized' = Some(normalize(unwrap(normalized)))
  /\ UNCHANGED <<symbols, checked, normalized, failure, encoded, dataVars,
                 msgVars, sessionVars>>

\* to_json(&Request::Subscribe(&data)) with data.bars the normalized list.
SerializeSubscribe ==
  /\ normalized # None
  /\ encoded = None
  /\ LET req == Request_Subscribe([bars |-> unwrap(normalized)])
     IN encoded' = Some([request |-> req, json |-> to_json(req)])
  /\ UNCHANGED <<symbols, checked, normalized, renormalized, failure,
                 dataVars, msgVars, sessionVars>>

\* to_json(&Request::Unsubscribe(&data)) with data.bars the normalized list.
SerializeUnsubscribe ==
  /\ normalized # None
  /\ encoded = None
  /\ LET req == Request_Unsubscribe([bars |-> unwrap(normalized)])
     IN encoded' = Some([request |-> req, json |-> to_json(req)])
  /\ UNCHANGED <<symbols, checked, normalized, renormalized, failure,
                 dataVars, msgVars, sessionVars>>

\* to_json(&Request::Authenticate { key_id, secret })
SerializeAuthenticate(key_id, secret) ==
  /\ encoded = None
  /\ LET req == Request_Authenticate(key_id, secret)
     IN encoded' = Some([request |-> req, json |-> to_json(req)])
  /\ UNCHANGED <<symbols, checked, normalized, renormalized, failure,
                 dataVars, msgVars, sessionVars>>

NextSym ==
  \/ IsNormalized
  \/ Normalize
  \/ NormalizeAgain
  \/ SerializeSubscribe
  \/ SerializeUnsubscribe
  \/ \E key_id \in Keys, secret \in Secrets : SerializeAuthenticate(key_id, secret)

SpecSym == InitSym /\ [][NextSym]_vars

(***************************************************************************)
(* MarketData::set_bars                                                    *)
(***************************************************************************)

\* set_bars(symbols) with symbols: Symbols
SetBarsSymbols(list) ==
  /\ arg' = [from |-> "Symbols", items |-> list]
  /\ data' = [data EXCEPT !.bars = Normalized_from_symbols(list)]
  /\ UNCHANGED <<symVars, msgVars, sessionVars>>

\* set_bars(symbols) with symbols: Vec<String>
SetBarsStrings(strings) ==
  /\ arg' = [from |-> "Strings", items |-> strings]
  /\ data' = [data EXCEPT !.bars = Normalized_from_strings(strings)]
  /\ UNCHANGED <<symVars, msgVars, sessionVars>>

\* set_bars(symbols) with symbols: [&'static str; N]
SetBarsStrs(strs) ==
  /\ arg' = [from |-> "Strs", items |-> strs]
  /\ data' = [data EXCEPT !.bars = Normalized_from_strs(strs)]
  /\ UNCHANGED <<symVars, msgVars, sessionVars>>

\* set_bars(Normalized::default()): a Normalized converts into itself.
SetBarsDefault ==
  /\ arg' = [from |-> "Default", items |-> <<>>]
  /\ data' = [data EXCEPT !.bars = Normalized_default]
  /\ UNCHANGED <<symVars, msgVars, sessionVars>>

NextData ==
  \/ \E list \in SymbolLists : SetBarsSymbols(list)
  \/ \E strings \in TextLists : SetBarsStrings(strings)
  \/ \E strs \in TextLists : SetBarsStrs(strs)
  \/ SetBarsDefault

SpecData == Init /\ [][NextData]_vars

(***************************************************************************)
(* Inbound messages: classify and is_error                                 *)
(***************************************************************************)

\* Most inbound messages in one run of the classifier.
MaxInbound == 2

\* Bar: the fields of the bar of tests::parse_bar, for two symbols and two
\* volumes; a price is <<numerator, denominator>>.
Bars ==
  { [symbol |-> symbol, open_price |-> <<388985, 1000>>,
     high_price |-> <<38913, 100>>, low_price |-> <<388975, 1000>>,
     close_price |-> <<38912, 100>>, volume |-> volume,
     timestamp |-> "2021-02-22T19:15:00Z"] :
      symbol \in { <<"A">>, <<"B">> }, volume \in { 0, 49378 } }

\* ApiError { code, message }
ApiError(code, message) == [code |-> code, message |-> message]

\* DataMessage::Bar(bar)
DataMessage_Bar(bar) == [T |-> "b", bar |-> Some(bar), error |-> None]

\* DataMessage::Success
DataMessage_Success == [T |-> "success", bar |-> None, error |-> None]

\* DataMessage::Error(error)
DataMessage_Error(error) == [T |-> "error", bar |-> None, error |-> Some(error)]

DataMessages ==
  { DataMessage_Bar(bar) : bar \in Bars }
    \cup { DataMessage_Success }
    \cup { DataMessage_Error(ApiError(code, message)) :
             code \in ApiCodes, message \in ApiMessages }

\* The failures of the decoder (JsonError) and of the websocket.
JsonErrors == { "expected value", "missing field" }

WebSocketErrors == { "ConnectionClosed", "Protocol" }

\* MessageResult::Ok(Ok(message))
Parsed_Ok_Ok(message) ==
  [outer |-> "Ok", inner |-> "Ok", message |-> Some(message), json |-> None,
   ws |-> None]

\* MessageResult::Ok(Err(err))
Parsed_Ok_Err(err) ==
  [outer |-> "Ok", inner |-> "Err", message |-> None, json |-> Some(err),
   ws |-> None]

\* MessageResult::Err(err)
Parsed_Err(err) ==
  [outer |-> "Err", inner |-> "None", message |-> None, json |-> None,
   ws |-> Some(err)]

\* ParsedMessage
ParsedMessages ==
  { Parsed_Ok_Ok(message) : message \in DataMessages }
    \cup { Parsed_Ok_Err(err) : err \in JsonErrors }
    \cup { Parsed_Err(err) : err \in WebSocketErrors }

\* Data::Bar(bar)
Data_Bar(bar) == [variant |-> "Bar", bar |-> bar]

\* UserMessage: Ok(Ok(data))
User_Ok_Ok(user_data) ==
  [outer |-> "Ok", inner |-> "Ok", data |-> Some(user_data), json |-> None,
   ws |-> None]

\* UserMessage: Ok(Err(err))
User_Ok_Err(err) ==
  [outer |-> "Ok", inner |-> "Err", data |-> None, json |-> Some(err),
   ws |-> None]

\* UserMessage: Err(err)
User_Err(err) ==
  [outer |-> "Err", inner |-> "None", data |-> None, json |-> None,
   ws |-> Some(err)]

\* subscribe::Classification::UserMessage(user_message)
Classification_UserMessage(user_message) ==
  [to |-> "UserMessage", user |-> Some(user_message), control |-> None]

\* subscribe::Classification::ControlMessage(control_message)
Classification_ControlMessage(control_message) ==
  [to |-> "ControlMessage", user |-> None, control |-> Some(control_message)]

\* classify with the Error arm handing the error to the user as a failed
\* decode.
classify_error_to_user(self) ==
  IF self.outer = "Err" THEN Classification_UserMessage(User_Err(unwrap(self.ws)))
  ELSE IF self.inner = "Err"
  THEN Classification_UserMessage(User_Ok_Err(unwrap(self.json)))
  ELSE IF unwrap(self.message).T = "b"
  THEN Classification_UserMessage(
         User_Ok_Ok(Data_Bar(unwrap(unwrap(self.message).bar))))
  ELSE IF unwrap(self.message).T = "success"
  THEN Classification_ControlMessage(ControlMessage_Success)
  ELSE Classification_UserMessage(User_Ok_Err("error"))

\* ParsedMessage::classify
classify(self) ==
  IF self.outer = "Err" THEN Classification_UserMessage(User_Err(unwrap(self.ws)))
  ELSE IF self.inner = "Err"
  THEN Classification_UserMessage(User_Ok_Err(unwrap(self.json)))
  ELSE IF unwrap(self.message).T = "b"
  THEN Classification_UserMessage(
         User_Ok_Ok(Data_Bar(unwrap(unwrap(self.message).bar))))
  ELSE IF unwrap(self.message).T = "success"
  THEN Classification_ControlMessage(ControlMessage_Success)
  ELSE Classification_ControlMessage(
         ControlMessage_Error(unwrap(unwrap(self.message).error).code,
                              unwrap(unwrap(self.message).error).message))

\* Result::unwrap_or: the value of an Ok, the default of an Err.
unwrap_or(mapped, default) == IF mapped = None THEN default ELSE unwrap(mapped)

\* is_error with unwrap_or(false).
is_error_transport_ignored(user_message) ==
  unwrap_or(IF user_message.outer = "Ok"
            THEN Some(user_message.inner = "Err")
            ELSE None,
            FALSE)

\* ParsedMessage::is_error: as_ref().map(|result| result.is_err())
\* .unwrap_or(true)
is_error(user_message) ==
  unwrap_or(IF user_message.outer = "Ok"
            THEN Some(user_message.inner = "Err")
            ELSE None,
            TRUE)

(***************************************************************************)
(* Subscription: authenticate, subscribe, unsubscribe, subscriptions       *)
(***************************************************************************)

\* The failure of the sink swallowed: the call goes on to wait.
try_send_swallowed(err) == [returns |-> FALSE, value |-> Err(err)]

\* The `?` on the result of send: a failure of the sink is returned at
\* once, as the outer error.
try_send(err) == [returns |-> TRUE, value |-> Err(err)]

\* The match with the Err(()) arm returning success.
authenticate_response_err_ok(resp) ==
  IF resp = None THEN Ok_Err_Str(StreamClosedText)
  ELSE IF ~unwrap(resp).ok THEN Ok_Ok
  ELSE IF unwrap(resp).control.kind = "Success" THEN Ok_Ok
  ELSE Ok_Err_Str(format_auth_error(unwrap(resp).control.message,
                                    unwrap(resp).control.code))

\* The match with the None arm returning the failure of the Err(()) arm.
authenticate_response_closed_as_failed(resp) ==
  IF resp = None THEN Ok_Err_Str(AuthFailedText)
  ELSE IF ~unwrap(resp).ok THEN Ok_Err_Str(AuthFailedText)
  ELSE IF unwrap(resp).control.kind = "Success" THEN Ok_Ok
  ELSE Ok_Err_Str(format_auth_error(unwrap(resp).control.message,
                                    unwrap(resp).control.code))

\* The match on `response` in authenticate.
authenticate_response(resp) ==
  IF resp = None THEN Ok_Err_Str(StreamClosedText)
  ELSE IF ~unwrap(resp).ok THEN Ok_Err_Str(AuthFailedText)
  ELSE IF unwrap(resp).control.kind = "Success" THEN Ok_Ok
  ELSE Ok_Err_Str(format_auth_error(unwrap(resp).control.message,
                                    unwrap(resp).control.code))

\* A control call starts: the per-call bookkeeping.
StartCall(name) ==
  /\ pc \in {"idle", "returned"}
  /\ calls < MaxCalls
  /\ calls' = calls + 1
  /\ op' = name
  /\ sendError' = None
  /\ response' = None
  /\ result' = None
  /\ sent' = 0
  /\ consumed' = 0
  /\ previous' = subscriptions

\* authenticate, up to the call of send: the request is built and encoded.
Authenticate(key_id, secret) ==
  /\ StartCall("authenticate")
  /\ request' = Some(Message_Text(to_json(Request_Authenticate(key_id, secret))))
  /\ pc' = "send"
  /\ UNCHANGED <<symVars, dataVars, msgVars, sink, channel, control, subscriptions,
                 delta, authenticated, observed>>

\* send: the sink takes the message, and the call waits for the response.
SendOk ==
  /\ pc = "send"
  /\ sink' = Append(sink, unwrap(request))
  /\ sent' = sent + 1
  /\ pc' = "await"
  /\ UNCHANGED <<symVars, dataVars, msgVars, op, calls, request, channel, control,
                 sendError, response, result, consumed, subscriptions,
                 previous, delta, authenticated, observed>>

\* send: the sink fails, and `?` decides what the call does with it.
SendErr(err) ==
  /\ pc = "send"
  /\ sendError' = Some(err)
  /\ IF try_send(err).returns
     THEN /\ pc' = "returned"
          /\ result' = Some(try_send(err).value)
     ELSE /\ pc' = "await"
          /\ UNCHANGED result
  /\ UNCHANGED <<symVars, dataVars, msgVars, op, calls, request, sink, channel,
                 control, response, sent, consumed, subscriptions, previous,
                 delta, authenticated, observed>>

\* The server acknowledges the request of the waiting call.
RespondSuccess ==
  /\ pc = "await"
  /\ channel = "open"
  /\ control = None
  /\ control' = Some(Ok(ControlMessage_Success))
  /\ UNCHANGED <<symVars, dataVars, msgVars, pc, op, calls, request, sink, channel,
                 sendError, response, result, sent, consumed, subscriptions,
                 previous, delta, authenticated, observed>>

\* The server rejects the request of the waiting call.
RespondError(code, message) ==
  /\ pc = "await"
  /\ channel = "open"
  /\ control = None
  /\ control' = Some(Ok(ControlMessage_Error(code, message)))
  /\ UNCHANGED <<symVars, dataVars, msgVars, pc, op, calls, request, sink, channel,
                 sendError, response, result, sent, consumed, subscriptions,
                 previous, delta, authenticated, observed>>

\* The stream yields an erroneous message while the call waits: Err(()).
StreamError ==
  /\ pc = "await"
  /\ channel = "open"
  /\ control = None
  /\ control' = Some(Err_unit)
  /\ UNCHANGED <<symVars, dataVars, msgVars, pc, op, calls, request, sink, channel,
                 sendError, response, result, sent, consumed, subscriptions,
                 previous, delta, authenticated, observed>>

\* The inbound stream ends.
Close ==
  /\ channel = "open"
  /\ channel' = "closed"
  /\ UNCHANGED <<symVars, dataVars, msgVars, pc, op, calls, request, sink, control,
                 sendError, response, result, sent, consumed, subscriptions,
                 previous, delta, authenticated, observed>>

\* authenticate sending its request again after a response that is not
\* Success.
AuthenticateResume_retry ==
  /\ pc = "await"
  /\ op = "authenticate"
  /\ control # None \/ channel = "closed"
  /\ response' = Some(control)
  /\ consumed' = consumed + Len(control)
  /\ control' = None
  /\ result' = Some(authenticate_response(control))
  /\ authenticated' = (authenticated \/ authenticate_response(control) = Ok_Ok)
  /\ pc' = IF authenticate_response(control) = Ok_Ok THEN "returned" ELSE "send"
  /\ UNCHANGED <<symVars, dataVars, msgVars, op, calls, request, sink, channel,
                 sendError, sent, subscriptions, previous, delta, observed>>

\* authenticate, from the resolution of send to the return.
AuthenticateResume ==
  /\ pc = "await"
  /\ op = "authenticate"
  /\ control # None \/ channel = "closed"
  /\ response' = Some(control)
  /\ consumed' = consumed + Len(control)
  /\ control' = None
  /\ result' = Some(authenticate_response(control))
  /\ authenticated' = (authenticated \/ authenticate_response(control) = Ok_Ok)
  /\ pc' = "returned"
  /\ UNCHANGED <<symVars, dataVars, msgVars, op, calls, request, sink, channel,
                 sendError, sent, subscriptions, previous, delta, observed>>

\* subscribe writing the delta into the baseline before any acknowledgement.
Subscribe_eager(subscribe) ==
  /\ StartCall("subscribe")
  /\ delta' = subscribe
  /\ subscriptions' = [bars |-> normalize(subscriptions.bars \o subscribe.bars)]
  /\ pc' = "panicked"
  /\ UNCHANGED <<symVars, dataVars, msgVars, request, sink, channel, control,
                 authenticated, observed>>

\* subscribe: todo!() panics before anything is sent.
Subscribe(subscribe) ==
  /\ StartCall("subscribe")
  /\ delta' = subscribe
  /\ pc' = "panicked"
  /\ UNCHANGED <<symVars, dataVars, msgVars, request, sink, channel, control,
                 subscriptions, authenticated, observed>>

\* unsubscribe: todo!() panics before anything is sent.
Unsubscribe(unsubscribe) ==
  /\ StartCall("unsubscribe")
  /\ delta' = unsubscribe
  /\ pc' = "panicked"
  /\ UNCHANGED <<symVars, dataVars, msgVars, request, sink, channel, control,
                 subscriptions, authenticated, observed>>

\* subscriptions(): the baseline, read between two control calls.
Subscriptions ==
  /\ pc \in {"idle", "returned"}
  /\ observed' = Some(subscriptions)
  /\ UNCHANGED <<symVars, dataVars, msgVars, pc, op, calls, request, sink, channel,
                 control, sendError, response, result, sent, consumed,
                 subscriptions, previous, delta, authenticated>>

Next ==
  \/ \E key_id \in Keys, secret \in Secrets : Authenticate(key_id, secret)
  \/ SendOk
  \/ \E err \in TransportErrors : SendErr(err)
  \/ RespondSuccess
  \/ \E code \in ApiCodes, message \in ApiMessages : RespondError(code, message)
  \/ StreamError
  \/ Close
  \/ AuthenticateResume
  \/ \E subscribe \in NormalizedValues : Subscribe([bars |-> subscribe])
  \/ \E unsubscribe \in NormalizedValues : Unsubscribe([bars |-> unsubscribe])
  \/ Subscriptions

Spec == Init /\ [][Next]_vars

\* The executor polls the task again once send has resolved.
LiveSpec == Spec /\ WF_vars(AuthenticateResume)

(***************************************************************************)
(* The classifier at work on the inbound messages                          *)
(***************************************************************************)

\* Some inbound messages have been parsed; none is classified yet.
InitMsg ==
  /\ symbols = <<>>
  /\ checked = None
  /\ normalized = None
  /\ renormalized = None
  /\ parsed \in SeqUpTo(ParsedMessages, MaxInbound)
  /\ classified = <<>>
  /\ judged = <<>>
  /\ InitRest

\* The next parsed message is classified.
Classify ==
  /\ Len(classified) < Len(parsed)
  /\ classified' = Append(classified, classify(parsed[Len(classified) + 1]))
  /\ UNCHANGED <<symVars, dataVars, parsed, judged, sessionVars>>

\* is_error is asked about the next classified message if it went to the
\* user; a control message is not put to it.
IsError ==
  /\ Len(judged) < Len(classified)
  /\ LET classification == classified[Len(judged) + 1]
     IN judged' = Append(judged,
                         IF classification.to = "UserMessage"
                         THEN Some(is_error(unwrap(classification.user)))
                         ELSE None)
  /\ UNCHANGED <<symVars, dataVars, parsed, classified, sessionVars>>

NextMsg == Classify \/ IsError

SpecMsg == InitMsg /\ [][NextMsg]_vars

(***************************************************************************)
(* Properties of the symbol lists                                          *)
(***************************************************************************)

\* Consecutive elements strictly increase under the Symbol order.
StrictlyIncreasing(list) ==
  \A i \in 1..(Len(list) - 1) : partial_cmp(list[i], list[i + 1]) = Some("Less")

Elements(list) == { list[i] : i \in 1..Len(list) }

\* The Normalized invariant of a symbol list.
NormalizedInvariant(list) ==
  \/ list = <<>>
  \/ list = <<All>>
  \/ ~contains(list, All) /\ StrictlyIncreasing(list)

\* C1: every Normalized list reachable through Default, the From
\* conversions and set_bars is empty, or the single wildcard, or free of
\* the wildcard and strictly increasing (so without duplicates).
C1_NormalizedInvariant == NormalizedInvariant(data.bars)

\* C2: is_normalized is false when the wildcard co-occurs with another
\* element, and otherwise true exactly when the list strictly increases.
C2_IsNormalizedStrict ==
  checked # None =>
    unwrap(checked) =
      (IF Len(symbols) > 1 /\ contains(symbols, All)
       THEN FALSE
       ELSE StrictlyIncreasing(symbols))

\* C3: for a list without the wildcard, normalize returns the distinct
\* elements of the list in increasing order.
C3_NormalizeSortedDistinct ==
  (normalized # None /\ ~contains(symbols, All)) =>
    /\ StrictlyIncreasing(unwrap(normalized))
    /\ Elements(unwrap(normalized)) = Elements(symbols)

\* C4: for a list that holds the wildcard, in any position and any number
\* of times, normalize returns the single-element wildcard list.
C4_WildcardAbsorbs ==
  (normalized # None /\ contains(symbols, All)) => unwrap(normalized) = <<All>>

\* A list that starts with a specific symbol and holds the wildcard further
\* on has been normalized.
C4_Witness ==
  /\ normalized = Some(<<All>>)
  /\ Len(symbols) >= 2
  /\ symbols[1] # All

\* C5: normalize(normalize(L)) = normalize(L), and a list for which
\* is_normalized holds comes back from normalize as it went in.
C5_Idempotent ==
  /\ renormalized # None => renormalized = normalized
  /\ (normalized # None /\ checked = Some(TRUE)) => unwrap(normalized) = symbols

\* A list that was not normalized has been sorted into two or more symbols
\* and normalized a second time.
C5_Witness ==
  /\ checked = Some(FALSE)
  /\ renormalized # None
  /\ Len(unwrap(normalized)) >= 2

(***************************************************************************)
(* Properties of authenticate and subscribe                                *)
(***************************************************************************)

\* An authenticate call has returned.
AuthenticateReturned == pc = "returned" /\ op = "authenticate"

\* The `response` of the call is the control message Error(code, message).
ResponseIsError ==
  /\ response # None
  /\ unwrap(response) # None
  /\ unwrap(unwrap(response)).ok
  /\ unwrap(unwrap(response)).control.kind = "Error"

\* C6: authenticate returns Ok(Ok(())) if and only if the request was sent
\* and the control response of the call is Success.
C6_SuccessIffSuccessResponse ==
  AuthenticateReturned =>
    (result = Some(Ok_Ok) <=>
       /\ sent = 1
       /\ sink # <<>>
       /\ sink[Len(sink)] = unwrap(request)
       /\ response = Some(Some(Ok(ControlMessage_Success))))

\* authenticate has returned success.
C6_Witness == AuthenticateReturned /\ result = Some(Ok_Ok)

\* C7: when the control response is Error(code, message), authenticate
\* returns Ok(Err(..)) with a description that embeds message and code.
C7_ErrorEmbedsMessageAndCode ==
  (AuthenticateReturned /\ ResponseIsError) =>
    /\ unwrap(result).outer = "Ok"
    /\ unwrap(result).inner = "Err"
    /\ Embeds(unwrap(result).description,
              unwrap(unwrap(response)).control.message)
    /\ Embeds(unwrap(result).description,
              u64_to_string(unwrap(unwrap(response)).control.code))

\* authenticate was answered Error{401, "invalid credentials"} and returned
\* the failure whose description holds "invalid credentials" and "401".
C7_Witness ==
  /\ AuthenticateReturned
  /\ response = Some(Some(Ok(ControlMessage_Error(401, InvalidCredentials))))
  /\ Embeds(unwrap(result).description, InvalidCredentials)
  /\ Embeds(unwrap(result).description, <<"4", "0", "1">>)

\* C8: once the stream has closed on a waiting authenticate call with no
\* control response, the call returns, with the premature-closure failure;
\* and that failure is not what an Error response gives.
C8_ClosureResolves ==
  /\ (pc = "await" /\ op = "authenticate" /\ channel = "closed" /\ control = None)
       ~> (AuthenticateReturned
           /\ response = Some(None)
           /\ result = Some(Ok_Err_Str(StreamClosedText)))
  /\ []((AuthenticateReturned /\ ResponseIsError)
          => result # Some(Ok_Err_Str(StreamClosedText)))

\* authenticate sent its request, the stream closed, and the call returned
\* the premature-closure failure.
C8_Witness ==
  /\ AuthenticateReturned
  /\ sent = 1
  /\ channel = "closed"
  /\ response = Some(None)
  /\ result = Some(Ok_Err_Str(StreamClosedText))

\* C9: when the sink fails, authenticate returns that failure as the outer
\* error, with no inner result, and takes no control response.
C9_SendFailurePropagates ==
  (op = "authenticate" /\ sendError # None) =>
    /\ pc = "returned"
    /\ result = Some(Err(unwrap(sendError)))
    /\ unwrap(result).outer = "Err"
    /\ unwrap(result).inner = "None"
    /\ response = None
    /\ consumed = 0

\* The sink has failed under an authenticate call, which has returned.
C9_Witness ==
  /\ AuthenticateReturned
  /\ sendError # None
  /\ result = Some(Err(unwrap(sendError)))

\* C10: a subscribe call on an authenticated session that was not refused
\* (no failure of the sink, no Error response, no closure) has returned
\* success, and the baseline is the normalized union of what it was and
\* the delta.
C10_SubscribeMergesDelta ==
  (/\ op = "subscribe"
   /\ authenticated
   /\ pc \in {"returned", "panicked"}
   /\ sendError = None
   /\ response \in {None, Some(Some(Ok(ControlMessage_Success)))}) =>
    /\ result = Some(Ok_Ok)
    /\ subscriptions.bars = normalize(previous.bars \o delta.bars)

(***************************************************************************)
(* Properties of the request encoding and of the failures of normalize     *)
(***************************************************************************)

\* The JSON string that a symbol is meant to encode to.
ExpectedSymbolString(symbol) ==
  IF symbol = All THEN <<"\"", "*", "\"">>
  ELSE <<"\"">> \o symbol.text \o <<"\"">>

\* The request encoded last carries a symbol list.
EncodedBars ==
  /\ encoded # None
  /\ unwrap(encoded).request.variant \in {"Subscribe", "Unsubscribe"}

\* C15: a request encodes to one object with `action` auth, subscribe or
\* unsubscribe by its variant and the variant's fields beside it; `bars` is
\* the array of the symbols of the Normalized list in list order, a
\* specific symbol as its text and the wildcard as "*".
C15_RequestEncoding ==
  encoded # None =>
    LET req == unwrap(encoded).request
        json == unwrap(encoded).json
    IN IF req.variant = "Authenticate"
       THEN json = << <<"action", "auth">>, <<"key", req.key_id>>,
                      <<"secret", req.secret>> >>
       ELSE /\ Len(json) = 2
            /\ json[1][1] = "action"
            /\ req.variant = "Subscribe" => json[1][2] = "subscribe"
            /\ req.variant = "Unsubscribe" => json[1][2] = "unsubscribe"
            /\ json[2][1] = "bars"
            /\ Len(json[2][2]) = Len(req.data.bars)
            /\ \A i \in 1..Len(req.data.bars) :
                 json[2][2][i] = ExpectedSymbolString(req.data.bars[i])

\* The list [B, A] was normalized and encoded in a subscribe request, with
\* bars ["A", "B"].
C15_Witness ==
  /\ symbols = <<Symbol(<<"B">>), Symbol(<<"A">>)>>
  /\ encoded # None
  /\ unwrap(encoded).json =
       << <<"action", "subscribe">>,
          <<"bars", << <<"\"", "A", "\"">>, <<"\"", "B", "\"">> >> >> >>

\* The place of a text of Texts in the lexical order.
LexRank(text) ==
  CASE text = <<"*">> -> 1
    [] text = <<"A">> -> 2
    [] text = <<"A", "B">> -> 3
    [] text = <<"B">> -> 4

\* C17: normalize never fails. Every comparison of two symbols of the list
\* is defined, a specific symbol being below the wildcard and two specific
\* symbols comparing lexically, so the unwrap does not panic; and the
\* result satisfies is_normalized, so the debug assertion does not fire.
C17_NormalizeNeverFails ==
  /\ failure = None
  /\ \A i, j \in 1..Len(symbols) :
       /\ partial_cmp(symbols[i], symbols[j]) # None
       /\ (symbols[i].variant = "Symbol" /\ symbols[j] = All)
            => partial_cmp(symbols[i], symbols[j]) = Some("Less")
       /\ (symbols[i].variant = "Symbol" /\ symbols[j].variant = "Symbol")
            => (partial_cmp(symbols[i], symbols[j]) = Some("Less")
                  <=> LexRank(symbols[i].text) < LexRank(symbols[j].text))
  /\ normalized # None => is_normalized(unwrap(normalized))

\* A list that mixes a specific symbol with the wildcard, and was not
\* normalized, has been normalized without a panic.
C17_Witness ==
  /\ normalized # None
  /\ failure = None
  /\ Len(symbols) >= 2
  /\ symbols[1].variant = "Symbol"
  /\ contains(symbols, All)

\* C19: in the encoding of a Normalized list "*" appears only as the sole
\* element of the array, and two different symbols never encode to the
\* same string.
C19_StarOnlyAlone ==
  EncodedBars =>
    LET bars == unwrap(encoded).json[2][2]
    IN /\ (\E i \in 1..Len(bars) : bars[i] = <<"\"", "*", "\"">>)
            => Len(bars) = 1
       /\ \A x, y \in Elements(symbols) \cup Elements(unwrap(normalized)) :
            x # y => serialize_symbol(x) # serialize_symbol(y)

(***************************************************************************)
(* Properties of classify and is_error                                     *)
(***************************************************************************)

\* The parsed message decoded to a DataMessage with tag T.
Decoded(message, T) ==
  /\ message.outer = "Ok"
  /\ message.inner = "Ok"
  /\ unwrap(message.message).T = T

\* C13: classify routes every parsed message to one destination: a Bar to
\* the user as Data::Bar, Success and Error to the session as control
\* messages and not to the user, a decode failure and a transport failure
\* to the user as the failed result that carries the error.
C13_ClassifyRoutes ==
  \A i \in 1..Len(classified) :
    LET message == parsed[i]
        classification == classified[i]
    IN /\ (classification.user = None) # (classification.control = None)
       /\ Decoded(message, "b") =>
            /\ classification.to = "UserMessage"
            /\ classification.user =
                 Some([outer |-> "Ok", inner |-> "Ok",
                       data |-> Some([variant |-> "Bar",
                                      bar |-> unwrap(unwrap(message.message).bar)]),
                       json |-> None, ws |-> None])
       /\ Decoded(message, "success") =>
            /\ classification.to = "ControlMessage"
            /\ classification.user = None
            /\ unwrap(classification.control).kind = "Success"
       /\ Decoded(message, "error") =>
            /\ classification.to = "ControlMessage"
            /\ classification.user = None
            /\ unwrap(classification.control).kind = "Error"
            /\ unwrap(classification.control).code =
                 unwrap(unwrap(message.message).error).code
            /\ unwrap(classification.control).message =
                 unwrap(unwrap(message.message).error).message
       /\ (message.outer = "Ok" /\ message.inner = "Err") =>
            /\ classification.to = "UserMessage"
            /\ unwrap(classification.user).outer = "Ok"
            /\ unwrap(classification.user).inner = "Err"
            /\ unwrap(classification.user).json = message.json
       /\ message.outer = "Err" =>
            /\ classification.to = "UserMessage"
            /\ unwrap(classification.user).outer = "Err"
            /\ unwrap(classification.user).ws = message.ws

\* A malformed payload was classified, and after it an Error message.
C13_Witness ==
  /\ Len(classified) = 2
  /\ parsed[1].inner = "Err"
  /\ classified[1].to = "UserMessage"
  /\ Decoded(parsed[2], "error")
  /\ classified[2].to = "ControlMessage"

\* C14: is_error is true of a user message exactly when its outer or its
\* inner result failed, so false of every decoded data item; and with
\* classify, a decoded ApiError is never found to be an error, while every
\* decode failure and every transport failure is.
C14_IsErrorClassification ==
  \A i \in 1..Len(judged) :
    LET message == parsed[i]
        classification == classified[i]
    IN /\ classification.to = "UserMessage" =>
            /\ judged[i] # None
            /\ unwrap(judged[i]) =
                 (\/ unwrap(classification.user).outer = "Err"
                  \/ unwrap(classification.user).inner = "Err")
            /\ unwrap(classification.user).data # None => judged[i] = Some(FALSE)
       /\ Decoded(message, "error") => judged[i] # Some(TRUE)
       /\ (message.outer = "Ok" /\ message.inner = "Err") => judged[i] = Some(TRUE)
       /\ message.outer = "Err" => judged[i] = Some(TRUE)

\* A transport failure was found to be an error, and an Error message
\* after it was not.
C14_Witness ==
  /\ Len(judged) = 2
  /\ parsed[1].outer = "Err"
  /\ judged[1] = Some(TRUE)
  /\ Decoded(parsed[2], "error")
  /\ judged[2] # Some(TRUE)

(***************************************************************************)
(* Properties of the baseline and of the outcomes of authenticate          *)
(***************************************************************************)

\* The elements of list that removed does not hold, in the order of list.
Without(list, removed) == SelectSeq(list, LAMBDA x : ~contains(removed, x))

\* C11: an unsubscribe call on an authenticated session that was not
\* refused (no failure of the sink, no Error response, no closure) has
\* returned success, and the baseline holds the symbols it held that are
\* not in the delta, normalized; each of them is still subscribed.
C11_UnsubscribeRemovesDelta ==
  (/\ op = "unsubscribe"
   /\ authenticated
   /\ pc \in {"returned", "panicked"}
   /\ sendError = None
   /\ response \in {None, Some(Some(Ok(ControlMessage_Success)))}) =>
    /\ result = Some(Ok_Ok)
    /\ subscriptions.bars = normalize(Without(previous.bars, delta.bars))
    /\ \A x \in Elements(previous.bars) \ Elements(delta.bars) :
         contains(subscriptions.bars, x)

\* A subscribe or unsubscribe call has returned success on a Success
\* response.
AcknowledgedChange ==
  /\ op \in {"subscribe", "unsubscribe"}
  /\ response = Some(Some(Ok(ControlMessage_Success)))
  /\ result = Some(Ok_Ok)

\* C12: the baseline is empty at construction, and a step changes it only
\* as the effect of a subscribe or unsubscribe acknowledged with Success:
\* authenticate, whatever its outcome, a refused call and a request in
\* flight leave it as it was.
C12_BaselineFrame ==
  /\ subscriptions.bars = <<>>
  /\ [][subscriptions' # subscriptions => AcknowledgedChange']_vars

\* authenticate has succeeded, and subscriptions() has returned the empty
\* baseline after it.
C12_Witness ==
  /\ AuthenticateReturned
  /\ result = Some(Ok_Ok)
  /\ authenticated
  /\ observed = Some([bars |-> <<>>])
  /\ subscriptions.bars = <<>>

\* prefix is how text begins.
StartsWith(text, prefix) ==
  Len(prefix) <= Len(text) /\ SubSeq(text, 1, Len(prefix)) = prefix

\* (a) the failure of the sink, as the outer error.
FailureIsTransport ==
  /\ unwrap(result).outer = "Err"
  /\ sendError = Some(unwrap(result).transport)

\* (b) the rejection by the server, with its message and its code.
FailureIsRejection ==
  /\ unwrap(result).outer = "Ok"
  /\ unwrap(result).inner = "Err"
  /\ StartsWith(unwrap(result).description,
                <<"f", "a", "i", "l", "e", "d", " ", "t", "o", " ", "a", "u",
                  "t", "h", "e", "n", "t", "i", "c", "a", "t", "e", " ", "w",
                  "i", "t", "h", " ", "s", "e", "r", "v", "e", "r", ":", " ">>)
  /\ ResponseIsError
  /\ Embeds(unwrap(result).description,
            unwrap(unwrap(response)).control.message)
  /\ Embeds(unwrap(result).description,
            u64_to_string(unwrap(unwrap(response)).control.code))

\* (c) the premature closure.
FailureIsClosure ==
  /\ unwrap(result).outer = "Ok"
  /\ unwrap(result).inner = "Err"
  /\ unwrap(result).description = StreamClosedText
  /\ response = Some(None)

\* (d) "failed to authenticate with server", with no code and no message:
\* the stream yielded an erroneous message while the call waited.
FailureIsStreamError ==
  /\ unwrap(result).outer = "Ok"
  /\ unwrap(result).inner = "Err"
  /\ unwrap(result).description = AuthFailedText
  /\ response = Some(Some(Err_unit))

\* How many of the conditions hold.
Count(conditions) ==
  Cardinality({ k \in 1..Len(conditions) : conditions[k] })

\* authenticate has returned something other than Ok(Ok(())).
AuthenticateFailed == AuthenticateReturned /\ result # Some(Ok_Ok)

\* C16, as claimed: every failure of authenticate is exactly one of (a) a
\* transport failure, (b) a rejection that carries the server's code and
\* message, (c) a premature closure.
C16_ThreeFailureKinds ==
  AuthenticateFailed =>
    Count(<<FailureIsTransport, FailureIsRejection, FailureIsClosure>>) = 1

\* C16, amended: every failure of authenticate is exactly one of (a), (b),
\* (c) and (d) the failure without code and message that an erroneous
\* message on the stream gives.
C16_FourFailureKinds ==
  AuthenticateFailed =>
    Count(<<FailureIsTransport, FailureIsRejection, FailureIsClosure,
            FailureIsStreamError>>) = 1

\* The stream yielded an erroneous message under a waiting authenticate
\* call, which returned the failure without code and message.
C16_Witness ==
  /\ AuthenticateFailed
  /\ response = Some(Some(Err_unit))
  /\ result = Some(Ok_Err_Str(AuthFailedText))

\* C18: one authenticate call hands at most one request to the sink and
\* takes at most one control response; once it has returned, whatever the
\* outcome, it has made one attempt to send and no second one.
C18_NoRetry ==
  op = "authenticate" =>
    /\ sent <= 1
    /\ consumed <= 1
    /\ Len(sink) <= calls
    /\ pc = "returned" => (sent = 1) # (sendError # None)

\* authenticate was answered with an Error and has returned, having sent
\* one request and taken one response.
C18_Witness ==
  /\ AuthenticateReturned
  /\ ResponseIsError
  /\ sent = 1
  /\ consumed = 1
  /\ Len(sink) = 1

====
